---- MODULE Spec2Model ----
(***************************************************************************)
(* Verification model of openfst-1.6.1:                                    *)
(*   src/include/fst/sparse-power-weight.h  (SparsePowerWeight algebra,    *)
(*                                           Type(), WeightGenerate)       *)
(*   src/bin/fstreweight.cc                 (the fstreweight command)      *)
(*                                                                         *)
(* Three specifications share the variables:                               *)
(*   Spec      the weight algebra, applied to weights built from Zero(),   *)
(*             One(), single pairs and WeightGenerate                      *)
(*   SpecMain  one run of main() of fstreweight                            *)
(*   SpecType  concurrent callers of SparsePowerWeight<W, K>::Type()       *)
(***************************************************************************)
EXTENDS Integers, Sequences, FiniteSets, TLC

VARIABLES
    \* ---- weight algebra ----
    x, y,        \* the two power weights the program currently holds
    a, b,        \* the operands of the last operation
    k,           \* the scalar operand of the last scalar product
    delta,       \* the delta the caller passed to the last ApproxEqual
    res,         \* the power weight returned by the last operation
    dot,         \* the base weight read from DotProduct's returned reference
    approx,      \* the boolean returned by the last ApproxEqual
    op,          \* the name of the last operation
    n,           \* number of operations applied so far
    divided,     \* TRUE once x is the result of a chain that used Divide
    \* ---- fstreweight main() ----
    pc,          \* position of main()
    argc,        \* argc after SET_FLAGS removed the flags
    to_final,    \* FLAGS_to_final
    in_ok,       \* MutableFstClass::Read will return an automaton
    pot_ok,      \* ReadPotentials will return true
    write_ok,    \* Write will succeed
    events,      \* the calls main() has made, in order
    rtype,       \* the ReweightType handed to Reweight
    status,      \* exit status, -1 while main() runs
    \* ---- SparsePowerWeight::Type() ----
    type,        \* the function-local static string of Type()
    tpc,         \* position of each caller inside Type()
    tret,        \* the name each caller got
    ksize        \* sizeof(K)

algvars  == <<x, y, a, b, k, delta, res, dot, approx, op, n, divided>>
mainvars == <<pc, argc, to_final, in_ok, pot_ok, write_ok, events, rtype, status>>
typevars == <<type, tpc, tret, ksize>>
vars     == <<algvars, mainvars, typevars>>

(***************************************************************************)
(* Bounds                                                                  *)
(***************************************************************************)
MaxOps     == 2      \* operations applied in one behaviour of Spec
MaxArgc    == 5      \* largest argc tried by SpecMain
NumThreads == 2      \* concurrent callers of Type() in SpecType

(***************************************************************************)
(* The base weight W.  The algebra is generic in W; it is instantiated     *)
(* with a product of a left string weight and a tropical weight, which is  *)
(* non-commutative under Times and has a delta-sensitive ApproxEqual.      *)
(* The tropical component is counted in units of kDelta.                   *)
(***************************************************************************)
kStringInfinity == -1
kStringBad      == -2
PosInfinity     == 1000
NumberBad       == -1000
kDelta          == 1

DivideTypes == {"DIVIDE_LEFT", "DIVIDE_RIGHT", "DIVIDE_ANY"}

StrInf == <<kStringInfinity>>
StrBad == <<kStringBad>>

RECURSIVE CommonPrefix(_, _)
CommonPrefix(s1, s2) ==
    IF s1 = <<>> \/ s2 = <<>> \/ Head(s1) # Head(s2) THEN <<>>
    ELSE <<Head(s1)>> \o CommonPrefix(Tail(s1), Tail(s2))

StringPlus(s1, s2) ==
    IF s1 = StrBad \/ s2 = StrBad THEN StrBad
    ELSE IF s1 = StrInf THEN s2
    ELSE IF s2 = StrInf THEN s1
    ELSE CommonPrefix(s1, s2)

StringTimes(s1, s2) ==
    IF s1 = StrBad \/ s2 = StrBad THEN StrBad
    ELSE IF s1 = StrInf \/ s2 = StrInf THEN StrInf
    ELSE s1 \o s2

StringDivide(s1, s2, dtype) ==
    IF dtype # "DIVIDE_LEFT" THEN StrBad
    ELSE IF s1 = StrBad \/ s2 = StrBad THEN StrBad
    ELSE IF s2 = StrInf THEN StrBad
    ELSE IF s1 = StrInf THEN StrInf
    ELSE IF Len(s2) >= Len(s1) THEN <<>>
    ELSE SubSeq(s1, Len(s2) + 1, Len(s1))

TropicalPlus(t1, t2) ==
    IF t1 = NumberBad \/ t2 = NumberBad THEN NumberBad
    ELSE IF t1 < t2 THEN t1 ELSE t2

TropicalTimes(t1, t2) ==
    IF t1 = NumberBad \/ t2 = NumberBad THEN NumberBad
    ELSE IF t1 = PosInfinity \/ t2 = PosInfinity THEN PosInfinity
    ELSE t1 + t2

TropicalDivide(t1, t2) ==
    IF t1 = NumberBad \/ t2 = NumberBad THEN NumberBad
    ELSE IF t2 = PosInfinity THEN NumberBad
    ELSE IF t1 = PosInfinity THEN PosInfinity
    ELSE t1 - t2

\* float comparison: a NaN equals nothing, itself included
TropicalEq(t1, t2) == t1 # NumberBad /\ t2 # NumberBad /\ t1 = t2

TropicalApproxEqual(t1, t2, d) ==
    IF t1 = NumberBad \/ t2 = NumberBad THEN FALSE
    ELSE IF t1 = PosInfinity \/ t2 = PosInfinity THEN t1 = t2
    ELSE t1 <= t2 + d /\ t2 <= t1 + d

Weight(s, t) == [s |-> s, t |-> t]

WZero     == Weight(StrInf, PosInfinity)
WOne      == Weight(<<>>, 0)
WNoWeight == Weight(StrBad, NumberBad)

WPlus(v1, v2)  == Weight(StringPlus(v1.s, v2.s), TropicalPlus(v1.t, v2.t))
WTimes(v1, v2) == Weight(StringTimes(v1.s, v2.s), TropicalTimes(v1.t, v2.t))
WDivide(v1, v2, dtype) ==
    Weight(StringDivide(v1.s, v2.s, dtype), TropicalDivide(v1.t, v2.t))
WEq(v1, v2) == v1.s = v2.s /\ TropicalEq(v1.t, v2.t)
WApproxEqual(v1, v2, d) == v1.s = v2.s /\ TropicalApproxEqual(v1.t, v2.t, d)
WMember(v) == v.s # StrBad /\ v.t # NumberBad

(***************************************************************************)
(* SparseTupleWeight<W, K>: the value held under the reserved key kNoKey   *)
(* (field def, read by every key that has no pair) and the pairs of the    *)
(* real keys in increasing key order.                                      *)
(***************************************************************************)
kNoKey == -1

Tuple(d, ps) == [def |-> d, pairs |-> ps]

\* SparseTupleWeight(const W &weight): only the reserved key holds a value
SparseTupleWeight(w) == Tuple(w, <<>>)

TupleZero == SparseTupleWeight(WZero)
TupleOne  == SparseTupleWeight(WOne)

\* Push(key, weight, default_value_check)
Push(w, key, v, default_value_check) ==
    IF default_value_check /\ WEq(v, w.def) THEN w
    ELSE Tuple(w.def, Append(w.pairs, <<key, v>>))

KeysOf(w) == {w.pairs[i][1] : i \in 1..Len(w.pairs)}

\* the value a tuple reads at a key: its pair, else the reserved-key value
Read(w, key) ==
    IF \E i \in 1..Len(w.pairs) : w.pairs[i][1] = key
    THEN LET i == CHOOSE j \in 1..Len(w.pairs) : w.pairs[j][1] = key
         IN  w.pairs[i][2]
    ELSE w.def

(***************************************************************************)
(* The mappers handed to the merge (sparse-power-weight.h, lines 20-51).   *)
(* A mapper value names its kind and carries its constructor argument.     *)
(***************************************************************************)
SparseTupleWeightPlusMapper(key, v1, v2) == WPlus(v1, v2)

\* slip: the body of the Plus mapper copied into the Times mapper
SparseTupleWeightTimesMapperAsPlus(key, v1, v2) == WPlus(v1, v2)

SparseTupleWeightTimesMapper(key, v1, v2) == WTimes(v1, v2)

SparseTupleWeightDivideMapper(dtype, key, v1, v2) == WDivide(v1, v2, dtype)

SparseTupleWeightApproxMapper(d, key, v1, v2) ==
    IF WApproxEqual(v1, v2, d) THEN WOne ELSE WZero

PlusMapper      == [kind |-> "Plus",   dtype |-> "DIVIDE_ANY", delta |-> kDelta]
TimesMapper     == [kind |-> "Times",  dtype |-> "DIVIDE_ANY", delta |-> kDelta]
DivideMapper(t) == [kind |-> "Divide", dtype |-> t,            delta |-> kDelta]
ApproxMapper(d) == [kind |-> "Approx", dtype |-> "DIVIDE_ANY", delta |-> d]

Map(m, key, v1, v2) ==
    CASE m.kind = "Plus"   -> SparseTupleWeightPlusMapper(key, v1, v2)
      [] m.kind = "Times"  -> SparseTupleWeightTimesMapper(key, v1, v2)
      [] m.kind = "Divide" -> SparseTupleWeightDivideMapper(m.dtype, key, v1, v2)
      [] m.kind = "Approx" -> SparseTupleWeightApproxMapper(m.delta, key, v1, v2)

(***************************************************************************)
(* SparseTupleWeightMap: the two-pointer merge of w1 and w2.  The result's *)
(* reserved-key value is the mapper applied to the operands' reserved-key  *)
(* values; a side that lacks a key contributes its reserved-key value; a   *)
(* mapped value equal to the result's reserved-key value is not pushed.    *)
(* The callers in sparse-power-weight.h fix these three points: the scalar *)
(* products (lines 181-195) multiply every pair of the other operand by a  *)
(* tuple that holds only a reserved-key value, and ApproxEqual (line 178)  *)
(* compares the merge of One/Zero marks with One(), so the One marks must  *)
(* be dropped and the Zero marks kept.                                     *)
(***************************************************************************)
RECURSIVE MapLoop(_, _, _, _, _, _)
MapLoop(result, w1, w2, i, j, m) ==
    LET done1 == i > Len(w1.pairs)
        done2 == j > Len(w2.pairs)
    IN  IF done1 /\ done2 THEN result
        ELSE
          LET k1 == IF done1 THEN w2.pairs[j][1] ELSE w1.pairs[i][1]
              k2 == IF done2 THEN w1.pairs[i][1] ELSE w2.pairs[j][1]
              v1 == IF done1 THEN w1.def ELSE w1.pairs[i][2]
              v2 == IF done2 THEN w2.def ELSE w2.pairs[j][2]
          IN  IF k1 = k2 THEN
                MapLoop(Push(result, k1, Map(m, k1, v1, v2), TRUE), w1, w2,
                        IF done1 THEN i ELSE i + 1,
                        IF done2 THEN j ELSE j + 1, m)
              ELSE IF k1 < k2 THEN
                MapLoop(Push(result, k1, Map(m, k1, v1, w2.def), TRUE),
                        w1, w2, i + 1, j, m)
              ELSE
                MapLoop(Push(result, k2, Map(m, k2, w1.def, v2), TRUE),
                        w1, w2, i, j + 1, m)

SparseTupleWeightMap(w1, w2, m) ==
    MapLoop(Tuple(Map(m, 0, w1.def, w2.def), <<>>), w1, w2, 1, 1, m)

\* operator==(SparseTupleWeight, SparseTupleWeight)
RECURSIVE EqLoop(_, _, _, _)
EqLoop(w1, w2, i, j) ==
    LET done1 == i > Len(w1.pairs)
        done2 == j > Len(w2.pairs)
    IN  IF done1 /\ done2 THEN TRUE
        ELSE
          LET k1 == IF done1 THEN w2.pairs[j][1] ELSE w1.pairs[i][1]
              k2 == IF done2 THEN w1.pairs[i][1] ELSE w2.pairs[j][1]
              v1 == IF done1 THEN w1.def ELSE w1.pairs[i][2]
              v2 == IF done2 THEN w2.def ELSE w2.pairs[j][2]
          IN  IF k1 = k2 THEN
                WEq(v1, v2) /\ EqLoop(w1, w2, IF done1 THEN i ELSE i + 1,
                                      IF done2 THEN j ELSE j + 1)
              ELSE IF k1 < k2 THEN
                WEq(v1, w2.def) /\ EqLoop(w1, w2, i + 1, j)
              ELSE
                WEq(w1.def, v2) /\ EqLoop(w1, w2, i, j + 1)

TupleEq(w1, w2) == WEq(w1.def, w2.def) /\ EqLoop(w1, w2, 1, 1)

(***************************************************************************)
(* SparsePowerWeight<W, K> (sparse-power-weight.h)                         *)
(***************************************************************************)
Zero == TupleZero

One == TupleOne

\* SparsePowerWeight(const K &key, const W &weight)
PairWeight(key, w) == Push(TupleZero, key, w, TRUE)

\* slip: Plus built with the Times mapper
PlusWithTimesMapper(w1, w2) == SparseTupleWeightMap(w1, w2, TimesMapper)

Plus(w1, w2) == SparseTupleWeightMap(w1, w2, PlusMapper)

Times(w1, w2) == SparseTupleWeightMap(w1, w2, TimesMapper)

Divide(w1, w2, dtype) == SparseTupleWeightMap(w1, w2, DivideMapper(dtype))

\* the local 'result' of DotProduct when the function reaches its return
RECURSIVE SumValues(_, _, _)
SumValues(product, i, result) ==
    IF i > Len(product.pairs) THEN result
    ELSE SumValues(product, i + 1, WPlus(result, product.pairs[i][2]))

DotProductLocal(w1, w2) == SumValues(Times(w1, w2), 1, WZero)

\* DotProduct returns 'const W &' bound to that local: the caller reads the
\* storage of a dead object, which may still hold the sum or anything else.
DotProduct(w1, w2) == {DotProductLocal(w1, w2), WZero, WOne, WNoWeight}

\* the mapper is built from kDelta; the parameter delta is not used
ApproxEqual(w1, w2, d) ==
    TupleEq(SparseTupleWeightMap(w1, w2, ApproxMapper(kDelta)), One)

\* slip: the scalar put on the right of the left scalar product
TimesScalarLeftSwapped(s, w2) == Times(w2, SparseTupleWeight(s))

\* Times(const W &k, const SparsePowerWeight &w2)
TimesScalarLeft(s, w2) == Times(SparseTupleWeight(s), w2)

\* Times(const SparsePowerWeight &w1, const W &k)
TimesScalarRight(w1, s) == Times(w1, SparseTupleWeight(s))

\* WeightGenerate<SparsePowerWeight>::operator(), g[i] the i-th generate_()
sparse_power_rank == 3

\* slip: Push called with default_value_check = false
RECURSIVE GenerateLoopNoCheck(_, _, _)
GenerateLoopNoCheck(weight, g, i) ==
    IF i > sparse_power_rank THEN weight
    ELSE GenerateLoopNoCheck(Push(weight, i, g[i], FALSE), g, i + 1)

RECURSIVE GenerateLoop(_, _, _)
GenerateLoop(weight, g, i) ==
    IF i > sparse_power_rank THEN weight
    ELSE GenerateLoop(Push(weight, i, g[i], TRUE), g, i + 1)

WeightGenerate(g) == GenerateLoop(TupleZero, g, 1)

(***************************************************************************)
(* Inputs of the algebra                                                   *)
(***************************************************************************)
WA == Weight(<<1>>, 1)
WB == Weight(<<1>>, 3)
WC == Weight(<<2>>, 2)

Generated  == {WZero, WA}             \* values generate_() yields
PairValues == {WB, WC}                \* values of the single-pair weights
Scalars    == {WZero, WOne, WC}       \* scalar operands
Deltas     == {0, 1, 2}               \* deltas passed to ApproxEqual
Keys       == 1..sparse_power_rank

InitWeights ==
    {Zero, One}
      \cup {PairWeight(key, v) : key \in Keys, v \in PairValues}
      \cup {WeightGenerate(g) : g \in [Keys -> Generated]}

(***************************************************************************)
(* Idle values of the variables a specification does not use               *)
(***************************************************************************)
AlgIdle ==
    /\ x = Zero /\ y = Zero /\ a = Zero /\ b = Zero /\ k = WZero
    /\ delta = 0 /\ res = Zero /\ dot = WZero /\ approx = FALSE
    /\ op = "init" /\ n = 0 /\ divided = FALSE

MainIdle ==
    /\ pc = "idle" /\ argc = 0 /\ to_final = FALSE /\ in_ok = FALSE
    /\ pot_ok = FALSE /\ write_ok = FALSE /\ events = <<>>
    /\ rtype = "none" /\ status = -1

TypeIdle ==
    /\ type = "" /\ tpc = <<>> /\ tret = <<>> /\ ksize = 0

(***************************************************************************)
(* Spec: the weight algebra                                                *)
(***************************************************************************)
Init ==
    /\ x \in InitWeights /\ y \in InitWeights
    /\ a = Zero /\ b = Zero /\ k = WZero
    /\ delta = 0 /\ res = Zero /\ dot = WZero /\ approx = FALSE
    /\ op = "init" /\ n = 0 /\ divided = FALSE
    /\ MainIdle /\ TypeIdle

DoPlus ==
    /\ n < MaxOps
    /\ a' = x /\ b' = y
    /\ res' = Plus(x, y)
    /\ x' = res' /\ op' = "Plus" /\ n' = n + 1
    /\ UNCHANGED <<y, k, delta, dot, approx, divided, mainvars, typevars>>

DoTimes ==
    /\ n < MaxOps
    /\ a' = x /\ b' = y
    /\ res' = Times(x, y)
    /\ x' = res' /\ op' = "Times" /\ n' = n + 1
    /\ UNCHANGED <<y, k, delta, dot, approx, divided, mainvars, typevars>>

DoDivide ==
    /\ n < MaxOps
    /\ a' = x /\ b' = y
    /\ \E t \in DivideTypes : res' = Divide(x, y, t)
    /\ x' = res' /\ op' = "Divide" /\ n' = n + 1 /\ divided' = TRUE
    /\ UNCHANGED <<y, k, delta, dot, approx, mainvars, typevars>>

DoTimesScalarLeft ==
    /\ n < MaxOps
    /\ \E s \in Scalars :
         /\ k' = s /\ a' = SparseTupleWeight(s) /\ b' = x
         /\ res' = TimesScalarLeft(s, x)
    /\ x' = res' /\ op' = "TimesScalarLeft" /\ n' = n + 1
    /\ UNCHANGED <<y, delta, dot, approx, divided, mainvars, typevars>>

DoTimesScalarRight ==
    /\ n < MaxOps
    /\ \E s \in Scalars :
         /\ k' = s /\ a' = x /\ b' = SparseTupleWeight(s)
         /\ res' = TimesScalarRight(x, s)
    /\ x' = res' /\ op' = "TimesScalarRight" /\ n' = n + 1
    /\ UNCHANGED <<y, delta, dot, approx, divided, mainvars, typevars>>

DoApproxEqual ==
    /\ n < MaxOps
    /\ a' = x /\ b' = y
    /\ \E d \in Deltas :
         /\ delta' = d
         /\ approx' = ApproxEqual(x, y, d)
    /\ op' = "ApproxEqual" /\ n' = n + 1
    /\ UNCHANGED <<x, y, k, res, dot, divided, mainvars, typevars>>

DoDotProduct ==
    /\ n < MaxOps
    /\ a' = x /\ b' = y
    /\ dot' \in DotProduct(x, y)
    /\ op' = "DotProduct" /\ n' = n + 1
    /\ UNCHANGED <<x, y, k, delta, res, approx, divided, mainvars, typevars>>

Next ==
    \/ DoPlus
    \/ DoTimes
    \/ DoDivide
    \/ DoTimesScalarLeft
    \/ DoTimesScalarRight
    \/ DoApproxEqual
    \/ DoDotProduct

Spec == Init /\ [][Next]_vars

(***************************************************************************)
(* SpecMain: main() of fstreweight (fstreweight.cc, lines 18-51)           *)
(***************************************************************************)
\* fst::script::GetReweightType
GetReweightType(flag) ==
    IF flag THEN "REWEIGHT_TO_FINAL" ELSE "REWEIGHT_TO_INITIAL"

InitMain ==
    /\ pc = "check_args"
    /\ argc \in 1..MaxArgc
    /\ to_final \in BOOLEAN
    /\ in_ok \in BOOLEAN /\ pot_ok \in BOOLEAN /\ write_ok \in BOOLEAN
    /\ events = <<>> /\ rtype = "none" /\ status = -1
    /\ AlgIdle /\ TypeIdle

\* lines 29-32
MainCheckArgs ==
    /\ pc = "check_args"
    /\ IF argc < 3 \/ argc > 4
       THEN /\ events' = Append(events, "ShowUsage")
            /\ status' = 1 /\ pc' = "done"
       ELSE /\ pc' = "read_fst"
            /\ UNCHANGED <<events, status>>
    /\ UNCHANGED <<argc, to_final, in_ok, pot_ok, write_ok, rtype,
                   algvars, typevars>>

\* lines 38-39
MainReadFst ==
    /\ pc = "read_fst"
    /\ events' = Append(events, "Read")
    /\ IF ~in_ok
       THEN status' = 1 /\ pc' = "done"
       ELSE pc' = "read_potentials" /\ UNCHANGED status
    /\ UNCHANGED <<argc, to_final, in_ok, pot_ok, write_ok, rtype,
                   algvars, typevars>>

\* slip: the return after a failed ReadPotentials left out
MainReadPotentialsNoReturn ==
    /\ pc = "read_potentials"
    /\ events' = Append(events, "ReadPotentials")
    /\ pc' = "reweight"
    /\ UNCHANGED <<argc, to_final, in_ok, pot_ok, write_ok, rtype, status,
                   algvars, typevars>>

\* lines 41-44
MainReadPotentials ==
    /\ pc = "read_potentials"
    /\ events' = Append(events, "ReadPotentials")
    /\ IF ~pot_ok
       THEN status' = 1 /\ pc' = "done"
       ELSE pc' = "reweight" /\ UNCHANGED status
    /\ UNCHANGED <<argc, to_final, in_ok, pot_ok, write_ok, rtype,
                   algvars, typevars>>

\* line 46
MainReweight ==
    /\ pc = "reweight"
    /\ events' = Append(events, "Reweight")
    /\ rtype' = GetReweightType(to_final)
    /\ pc' = "write"
    /\ UNCHANGED <<argc, to_final, in_ok, pot_ok, write_ok, status,
                   algvars, typevars>>

\* variant: the exit status taken from the result of Write
MainWriteChecked ==
    /\ pc = "write"
    /\ events' = Append(events, "Write")
    /\ status' = IF write_ok THEN 0 ELSE 1
    /\ pc' = "done"
    /\ UNCHANGED <<argc, to_final, in_ok, pot_ok, write_ok, rtype,
                   algvars, typevars>>

\* lines 48-50: the result of Write is dropped
MainWrite ==
    /\ pc = "write"
    /\ events' = Append(events, "Write")
    /\ status' = 0
    /\ pc' = "done"
    /\ UNCHANGED <<argc, to_final, in_ok, pot_ok, write_ok, rtype,
                   algvars, typevars>>

NextMain ==
    \/ MainCheckArgs
    \/ MainReadFst
    \/ MainReadPotentials
    \/ MainReweight
    \/ MainWrite

SpecMain == InitMain /\ [][NextMain]_vars

(***************************************************************************)
(* SpecType: callers of SparsePowerWeight<W, K>::Type() (lines 101-112),   *)
(* one step per statement, no lock around the static string.               *)
(***************************************************************************)
Threads  == 1..NumThreads
KSizes   == {1, 2, 4, 8}         \* sizeof(K) of the integer key types
SizeofUint32 == 4
WType    == "tropical"           \* W::Type()

Digit(d) ==
    CASE d = 0 -> "0" [] d = 1 -> "1" [] d = 2 -> "2" [] d = 3 -> "3"
      [] d = 4 -> "4" [] d = 5 -> "5" [] d = 6 -> "6" [] d = 7 -> "7"
      [] d = 8 -> "8" [] d = 9 -> "9"

RECURSIVE Int64ToStr(_)
Int64ToStr(i) ==
    IF i < 10 THEN Digit(i) ELSE Int64ToStr(i \div 10) \o Digit(i % 10)

InitType ==
    /\ type = ""
    /\ tpc = [t \in Threads |-> "test_empty"]
    /\ tret = [t \in Threads |-> ""]
    /\ ksize \in KSizes
    /\ AlgIdle /\ MainIdle

\* line 103
TypeTestEmpty(t) ==
    /\ tpc[t] = "test_empty"
    /\ tpc' = [tpc EXCEPT ![t] = IF type = "" THEN "assign" ELSE "return"]
    /\ UNCHANGED <<type, tret, ksize, algvars, mainvars>>

\* line 104
TypeAssign(t) ==
    /\ tpc[t] = "assign"
    /\ type' = WType \o "_^n"
    /\ tpc' = [tpc EXCEPT ![t] = "test_size"]
    /\ UNCHANGED <<tret, ksize, algvars, mainvars>>

\* line 105
TypeTestSize(t) ==
    /\ tpc[t] = "test_size"
    /\ tpc' = [tpc EXCEPT ![t] =
                 IF ksize # SizeofUint32 THEN "append" ELSE "return"]
    /\ UNCHANGED <<type, tret, ksize, algvars, mainvars>>

\* lines 106-108
TypeAppend(t) ==
    /\ tpc[t] = "append"
    /\ type' = type \o ("_" \o Int64ToStr(8 * ksize))
    /\ tpc' = [tpc EXCEPT ![t] = "return"]
    /\ UNCHANGED <<tret, ksize, algvars, mainvars>>

\* line 111
TypeReturn(t) ==
    /\ tpc[t] = "return"
    /\ tret' = [tret EXCEPT ![t] = type]
    /\ tpc' = [tpc EXCEPT ![t] = "done"]
    /\ UNCHANGED <<type, ksize, algvars, mainvars>>

NextType ==
    \E t \in Threads :
        \/ TypeTestEmpty(t)
        \/ TypeAssign(t)
        \/ TypeTestSize(t)
        \/ TypeAppend(t)
        \/ TypeReturn(t)

SpecType == InitType /\ [][NextType]_vars

(***************************************************************************)
(* Properties                                                              *)
(***************************************************************************)
Contains(seq, e) == \E i \in 1..Len(seq) : seq[i] = e

IsPrefix(p, q) == Len(p) <= Len(q) /\ SubSeq(q, 1, Len(p)) = p

\* a load has failed: the automaton or the potentials could not be read
ReadFailed ==
    \/ Contains(events, "Read") /\ ~in_ok
    \/ Contains(events, "ReadPotentials") /\ ~pot_ok

\* C1: once reading the automaton or the potentials has failed, main() has
\* returned a non-zero status and has called neither Reweight nor Write.
C1_LoadFailureAborts ==
    ReadFailed =>
        /\ pc = "done"
        /\ status > 0
        /\ ~Contains(events, "Reweight")
        /\ ~Contains(events, "Write")

C1_Witness ==
    /\ pc = "done" /\ in_ok /\ ~pot_ok
    /\ events = <<"Read", "ReadPotentials">>

\* C10: with 2 or 3 positional arguments and both loads succeeding, main()
\* calls Read, ReadPotentials, Reweight, Write in that order, each once,
\* hands Reweight REWEIGHT_TO_FINAL exactly when to_final is set, and exits
\* with status 0 whether or not Write succeeded.
CallOrder == <<"Read", "ReadPotentials", "Reweight", "Write">>

C10_LoadedRunOrder ==
    (argc \in {3, 4} /\ in_ok /\ pot_ok) =>
        /\ IsPrefix(events, CallOrder)
        /\ Contains(events, "Reweight") =>
             /\ to_final => rtype = "REWEIGHT_TO_FINAL"
             /\ ~to_final => rtype = "REWEIGHT_TO_INITIAL"
        /\ pc = "done" => events = CallOrder /\ status = 0
        /\ pc # "done" => status = -1

C10_Witness ==
    /\ argc = 3 /\ in_ok /\ pot_ok /\ ~write_ok /\ to_final
    /\ pc = "done" /\ events = CallOrder

\* every value of a tuple is a member of W (no NoWeight component)
TupleMember(w) ==
    /\ WMember(w.def)
    /\ \A i \in 1..Len(w.pairs) : WMember(w.pairs[i][2])

\* C3: One() is the identity of Times on power weights, on both sides:
\* the product is the other operand, pair for pair, and compares equal to it.
C3_OneIsTimesIdentity ==
    op = "Times" =>
        /\ b = One => (res = a /\ (TupleMember(a) => TupleEq(res, a)))
        /\ a = One => (res = b /\ (TupleMember(b) => TupleEq(res, b)))

C3_Witness ==
    /\ op = "Times" /\ b = One /\ a # One /\ Len(a.pairs) >= 2 /\ res = a

\* the value a tuple reads at a key when every missing key reads as Zero
ReadZero(w, key) == IF key \in KeysOf(w) THEN Read(w, key) ELSE WZero

StrictlyIncreasingKeys(w) ==
    \A i \in 1..Len(w.pairs) - 1 : w.pairs[i][1] < w.pairs[i + 1][1]

C5_ScalarBroadcast ==
    /\ op = "TimesScalarLeft" =>
          /\ \A key \in KeysOf(b) : Read(res, key) = WTimes(k, Read(b, key))
          /\ res.def = WTimes(k, b.def)
          /\ KeysOf(res) \subseteq KeysOf(b)
    /\ op = "TimesScalarRight" =>
          /\ \A key \in KeysOf(a) : Read(res, key) = WTimes(Read(a, key), k)
          /\ res.def = WTimes(a.def, k)
          /\ KeysOf(res) \subseteq KeysOf(a)

C5_Witness ==
    /\ op = "TimesScalarLeft" /\ k = WC
    /\ Len(b.pairs) >= 2 /\ KeysOf(res) = KeysOf(b)
    /\ Read(res, b.pairs[1][1]).s = WC.s \o b.pairs[1][2].s

\* C6: ApproxEqual(w1, w2, delta) is true exactly when, at every key (the
\* reserved key included), the base ApproxEqual of the two values holds
\* with the delta the caller passed.
C6_ApproxEqualUsesCallerDelta ==
    op = "ApproxEqual" =>
        (approx <=> \A key \in Keys \cup {kNoKey} :
                        WApproxEqual(Read(a, key), Read(b, key), delta))

\* base Plus, over the keys 1..key, of base Times of the two values there
RECURSIVE KeySum(_, _, _)
KeySum(w1, w2, key) ==
    IF key = 0 THEN WZero
    ELSE WPlus(KeySum(w1, w2, key - 1),
               WTimes(ReadZero(w1, key), ReadZero(w2, key)))

\* C7: the value the caller gets from DotProduct(p1, p2) is the base Plus
\* over all keys of base Times(p1[k], p2[k]), absent keys contributing Zero
\* (stated for operands whose reserved-key value is Zero, where a missing
\* key does read as Zero).
C7_DotProductIsKeySum ==
    (op = "DotProduct" /\ a.def = WZero /\ b.def = WZero) =>
        dot = KeySum(a, b, sparse_power_rank)

NoZeroPair(w) == \A i \in 1..Len(w.pairs) : w.pairs[i][2] # WZero

\* the pairs a tuple holds, the reserved-key pair counted when not Zero
Materialized(w) ==
    {w.pairs[i] : i \in 1..Len(w.pairs)}
      \cup (IF w.def = WZero THEN {} ELSE {<<kNoKey, w.def>>})

FullTypeName ==
    WType \o "_^n" \o
      (IF ksize # SizeofUint32 THEN "_" \o Int64ToStr(8 * ksize) ELSE "")

\* C9: under any interleaving of callers of Type(), every caller gets the
\* complete name and the cached string, once it holds the complete name,
\* is not modified again.
C9_TypeSingleAssignment ==
    /\ [](\A t \in DOMAIN tpc : tpc[t] = "done" => tret[t] = FullTypeName)
    /\ [][type = FullTypeName => type' = type]_vars

====
